---- MODULE Spec2Model ----
(***************************************************************************)
(* ParticleSystem2D: the per-frame physics of the particle simulation      *)
(* (force and integration, spatial grid, narrow-phase collisions) and the  *)
(* event handlers that feed it.                                            *)
(*                                                                         *)
(* Numbers.  The program computes with JavaScript numbers; the model       *)
(* computes with fixed-point integers, SCALE ticks to the world unit       *)
(* (1 tick = 0.001).  Products and quotients truncate toward zero and      *)
(* Length rounds up, so a value that the real-number computation           *)
(* represents exactly on the tick grid is computed exactly, and a          *)
(* rescaled vector is never longer than its real-valued counterpart.       *)
(* Comparisons of a length with a threshold are made on the squares (or    *)
(* on the rounded-up length with > against a whole number of ticks),       *)
(* which decides them exactly as the real-number comparison does.          *)
(***************************************************************************)
EXTENDS Integers, Sequences, FiniteSets, TLC

VARIABLES
    particles,          \* this.particles: sequence of [position, velocity, opacity]
    params,             \* this.params
    windowWidth,        \* this.windowWidth  (whole pixels = world units)
    windowHeight,       \* this.windowHeight
    isLeftMouseDown,    \* this.isLeftMouseDown
    isRightMouseDown,   \* this.isRightMouseDown
    attractionPoint,    \* this.attractionPoint (x, y)
    frame,              \* number of animation frames run so far
    events,             \* number of external events handled so far
    probe               \* what the last operation did (observations only)

vars == <<particles, params, windowWidth, windowHeight, isLeftMouseDown,
          isRightMouseDown, attractionPoint, frame, events, probe>>

----------------------------------------------------------------------------
(* Fixed-point arithmetic                                                  *)

SCALE == 1000

MaxFrames == 2

MaxEvents == 2

Abs(a) == IF a < 0 THEN -a ELSE a

Min(a, b) == IF a < b THEN a ELSE b

\* Quotient truncated toward zero (b > 0).
TDiv(a, b) == IF a >= 0 THEN a \div b ELSE -((-a) \div b)

\* Product of two fixed-point numbers.
Mul(a, b) == TDiv(a * b, SCALE)

\* Quotient of two fixed-point numbers (b > 0).
Quot(a, b) == TDiv(a * SCALE, b)

RECURSIVE SqrtSearch(_, _, _)
SqrtSearch(n, lo, hi) ==
    IF lo >= hi THEN lo
    ELSE LET mid == (lo + hi) \div 2
         IN  IF mid * mid >= n THEN SqrtSearch(n, lo, mid)
             ELSE SqrtSearch(n, mid + 1, hi)

\* Least k with k*k >= n: Math.sqrt, rounded up to the tick.
CeilSqrt(n) == SqrtSearch(n, 0, 46340)

Vec(x, y) == [x |-> x, y |-> y]

VecAdd(a, b) == Vec(a.x + b.x, a.y + b.y)

VecSub(a, b) == Vec(a.x - b.x, a.y - b.y)

LengthSq(v) == v.x * v.x + v.y * v.y

Length(v) == CeilSqrt(LengthSq(v))

\* a.length() < t, for a threshold t >= 0.
Shorter(v, t) == LengthSq(v) < t * t

MultiplyScalar(v, s) == Vec(Mul(v.x, s), Mul(v.y, s))

Dot(a, b) == Mul(a.x, b.x) + Mul(a.y, b.y)

\* Vector2.normalize: divideScalar(this.length() || 1).
Normalize(v) ==
    LET len == Length(v)
    IN  IF len = 0 THEN v ELSE Vec(Quot(v.x, len), Quot(v.y, len))

----------------------------------------------------------------------------
(* Stage 1: forces, gravity, speed limit, integration, border, friction    *)

PointerForceScale == 100

BaseOpacity == 800

OpacityGain == 500

FullOpacity == 1000

BorderRestitution == -900

DefaultParams ==
    [ attractionStrength |-> 100,
      repulsionStrength  |-> 150,
      maxSpeed           |-> 8000,
      particleSize       |-> 8000,
      gravity            |-> 200,
      friction           |-> 980,
      stopThreshold      |-> 50 ]

HalfExtent(w) == (w * SCALE) \div 2

InteractionRadius == Min(windowWidth, windowHeight) * SCALE

\* PointerStep with the direction taken from the pointer to the particle.
PointerStepAway(p) ==
    IF isLeftMouseDown \/ isRightMouseDown
    THEN LET diff == VecSub(p.position, attractionPoint)
         IN  IF Shorter(diff, InteractionRadius)
             THEN LET distance  == Length(diff)
                      direction == Normalize(diff)
                      force     == IF isLeftMouseDown
                                   THEN params.attractionStrength
                                   ELSE -params.repulsionStrength
                      ratio     == Quot(distance, InteractionRadius)
                      opacityChange ==
                          IF isLeftMouseDown
                          THEN Mul(SCALE - ratio, OpacityGain)
                          ELSE Mul(ratio, OpacityGain)
                  IN  [ velocity |-> VecAdd(p.velocity,
                                        MultiplyScalar(direction,
                                                       force * PointerForceScale)),
                        opacity  |-> Min(BaseOpacity + opacityChange, FullOpacity) ]
             ELSE [velocity |-> p.velocity, opacity |-> BaseOpacity]
    ELSE [velocity |-> p.velocity, opacity |-> BaseOpacity]

\* Lines 136-158: the velocity and the opacity after the pointer step.
PointerStep(p) ==
    IF isLeftMouseDown \/ isRightMouseDown
    THEN LET diff == VecSub(attractionPoint, p.position)
         IN  IF Shorter(diff, InteractionRadius)
             THEN LET distance  == Length(diff)
                      direction == Normalize(diff)
                      force     == IF isLeftMouseDown
                                   THEN params.attractionStrength
                                   ELSE -params.repulsionStrength
                      ratio     == Quot(distance, InteractionRadius)
                      opacityChange ==
                          IF isLeftMouseDown
                          THEN Mul(SCALE - ratio, OpacityGain)
                          ELSE Mul(ratio, OpacityGain)
                  IN  [ velocity |-> VecAdd(p.velocity,
                                        MultiplyScalar(direction,
                                                       force * PointerForceScale)),
                        opacity  |-> Min(BaseOpacity + opacityChange, FullOpacity) ]
             ELSE [velocity |-> p.velocity, opacity |-> BaseOpacity]
    ELSE [velocity |-> p.velocity, opacity |-> BaseOpacity]

\* ApplyGravity with the sign of the y axis taken as on the screen.
ApplyGravityUp(v) == Vec(v.x, v.y + params.gravity)

\* Line 161.
ApplyGravity(v) == Vec(v.x, v.y - params.gravity)

\* LimitSpeed that limits each component on its own, not the length.
LimitSpeedPerAxis(v) ==
    Vec(IF Abs(v.x) > params.maxSpeed
        THEN (IF v.x < 0 THEN -params.maxSpeed ELSE params.maxSpeed) ELSE v.x,
        IF Abs(v.y) > params.maxSpeed
        THEN (IF v.y < 0 THEN -params.maxSpeed ELSE params.maxSpeed) ELSE v.y)

\* Lines 164-167.
LimitSpeed(v) ==
    LET speed == Length(v)
    IN  IF speed > params.maxSpeed
        THEN MultiplyScalar(v, Quot(params.maxSpeed, speed))
        ELSE v

\* BorderAxis with the radius forgotten: the particle's centre is kept inside
\* the rectangle, not the particle.
BorderAxisNoInset(pos, vel, half, radius) ==
    LET p1 == IF pos < -half THEN -half ELSE pos
        v1 == IF pos < -half THEN Mul(vel, BorderRestitution) ELSE vel
        p2 == IF p1 > half THEN half ELSE p1
        v2 == IF p1 > half THEN Mul(v1, BorderRestitution) ELSE v1
    IN  [pos |-> p2, vel |-> v2]

\* Lines 173-188, one axis: the two tests run one after the other.
BorderAxis(pos, vel, half, radius) ==
    LET p1 == IF pos < -half + radius THEN -half + radius ELSE pos
        v1 == IF pos < -half + radius THEN Mul(vel, BorderRestitution) ELSE vel
        p2 == IF p1 > half - radius THEN half - radius ELSE p1
        v2 == IF p1 > half - radius THEN Mul(v1, BorderRestitution) ELSE v1
    IN  [pos |-> p2, vel |-> v2]

\* ApplyFriction left out.
ApplyNoFriction(v) == v

\* Line 191.
ApplyFriction(v) == MultiplyScalar(v, params.friction)

\* RestSnap that also stops a particle moving at exactly stopThreshold.
RestSnapAtThreshold(v) ==
    IF LengthSq(v) <= params.stopThreshold * params.stopThreshold THEN Vec(0, 0) ELSE v

\* Lines 192-194.
RestSnap(v) == IF Shorter(v, params.stopThreshold) THEN Vec(0, 0) ELSE v

\* Lines 134-195 for one particle: the particle after the stage, with the
\* intermediate velocities the stage went through.
Integrate(p) ==
    LET radius     == params.particleSize
        halfWidth  == HalfExtent(windowWidth)
        halfHeight == HalfExtent(windowHeight)
        pointed    == PointerStep(p)
        fallen     == ApplyGravity(pointed.velocity)
        limited    == LimitSpeed(fallen)
        moved      == VecAdd(p.position, limited)
        bx         == BorderAxis(moved.x, limited.x, halfWidth, radius)
        by         == BorderAxis(moved.y, limited.y, halfHeight, radius)
        rubbed     == ApplyFriction(Vec(bx.vel, by.vel))
    IN  [ position      |-> Vec(bx.pos, by.pos),
          velocity      |-> RestSnap(rubbed),
          opacity       |-> pointed.opacity,
          afterPointer  |-> pointed.velocity,
          afterLimit    |-> limited,
          afterFriction |-> rubbed ]

Particle(r) == [position |-> r.position, velocity |-> r.velocity, opacity |-> r.opacity]

----------------------------------------------------------------------------
(* Stage 2: the uniform spatial grid                                       *)

\* Lines 203-204: Math.floor((position + half) / cellSize) on one axis.
CellCoord(pos, half, cellSize) == (pos + half) \div cellSize

\* CellKey with cells one radius wide instead of one diameter.
CellKeyRadiusWide(pos) ==
    LET cellSize == params.particleSize
    IN  <<CellCoord(pos.x, HalfExtent(windowWidth), cellSize),
          CellCoord(pos.y, HalfExtent(windowHeight), cellSize)>>

\* Lines 198-205: the grid key of a position.
CellKey(pos) ==
    LET cellSize == params.particleSize * 2
    IN  <<CellCoord(pos.x, HalfExtent(windowWidth), cellSize),
          CellCoord(pos.y, HalfExtent(windowHeight), cellSize)>>

RECURSIVE Flatten(_)
Flatten(ss) == IF ss = <<>> THEN <<>> ELSE Head(ss) \o Flatten(Tail(ss))

Range(s) == {s[i] : i \in DOMAIN s}

RECURSIVE KeysUpTo(_, _)
KeysUpTo(cells, n) ==
    IF n = 0 THEN <<>>
    ELSE LET before == KeysUpTo(cells, n - 1)
         IN  IF cells[n] \in Range(before) THEN before
             ELSE Append(before, cells[n])

\* Lines 206, 233: the keys of the Map in its iteration (insertion) order.
GridKeys(cells) == KeysUpTo(cells, Len(cells))

\* Lines 206-207: grid.get(key), the particles of a cell in insertion order
\* (the empty list stands for a key the Map does not have).
Bucket(cells, key) ==
    SelectSeq([i \in 1..Len(cells) |-> i], LAMBDA i : cells[i] = key)

----------------------------------------------------------------------------
(* Stage 3: narrow phase                                                   *)

\* PositionShift by the whole overlap instead of half of it.
PositionShiftWhole(normal, overlap) == MultiplyScalar(normal, overlap)

\* Lines 219-220: normal.clone().multiplyScalar(overlap / 2).
PositionShift(normal, overlap) == MultiplyScalar(normal, TDiv(overlap, 2))

\* Impulse shared between the two particles, half each.
ImpulseHalved(velAlongNormal) == TDiv(-velAlongNormal, 2)

\* Line 225.
Impulse(velAlongNormal) == -velAlongNormal

\* ResolveCollision with the test of line 214 written distance <= minDist: a
\* pair exactly 2*radius apart is resolved too.
ResolveCollisionTouching(p1, p2, radius) ==
    LET diff    == VecSub(p1.position, p2.position)
        minDist == radius * 2
    IN  IF LengthSq(diff) > 0 /\ LengthSq(diff) <= minDist * minDist
        THEN LET distance == Length(diff)
                 overlap  == minDist - distance
                 normal   == Normalize(diff)
                 shift    == PositionShift(normal, overlap)
                 relativeVelocity == VecSub(p1.velocity, p2.velocity)
                 velAlongNormal   == Dot(relativeVelocity, normal)
                 kick     == IF velAlongNormal < 0
                             THEN MultiplyScalar(normal, Impulse(velAlongNormal))
                             ELSE Vec(0, 0)
             IN  << [p1 EXCEPT !.position = VecAdd(p1.position, shift),
                                !.velocity = VecAdd(p1.velocity, kick)],
                    [p2 EXCEPT !.position = VecSub(p2.position, shift),
                                !.velocity = VecSub(p2.velocity, kick)] >>
        ELSE <<p1, p2>>

\* ResolveCollision with the impulse added to both velocities (line 227 with
\* add for sub).
ResolveCollisionBothAdd(p1, p2, radius) ==
    LET diff    == VecSub(p1.position, p2.position)
        minDist == radius * 2
    IN  IF LengthSq(diff) > 0 /\ Shorter(diff, minDist)
        THEN LET distance == Length(diff)
                 overlap  == minDist - distance
                 normal   == Normalize(diff)
                 shift    == PositionShift(normal, overlap)
                 relativeVelocity == VecSub(p1.velocity, p2.velocity)
                 velAlongNormal   == Dot(relativeVelocity, normal)
                 kick     == IF velAlongNormal < 0
                             THEN MultiplyScalar(normal, Impulse(velAlongNormal))
                             ELSE Vec(0, 0)
             IN  << [p1 EXCEPT !.position = VecAdd(p1.position, shift),
                                !.velocity = VecAdd(p1.velocity, kick)],
                    [p2 EXCEPT !.position = VecSub(p2.position, shift),
                                !.velocity = VecAdd(p2.velocity, kick)] >>
        ELSE <<p1, p2>>

\* Lines 211-230 on two particles: <<p1, p2>> after the call.
ResolveCollision(p1, p2, radius) ==
    LET diff    == VecSub(p1.position, p2.position)
        minDist == radius * 2
    IN  IF LengthSq(diff) > 0 /\ Shorter(diff, minDist)
        THEN LET distance == Length(diff)
                 overlap  == minDist - distance
                 normal   == Normalize(diff)
                 shift    == PositionShift(normal, overlap)
                 relativeVelocity == VecSub(p1.velocity, p2.velocity)
                 velAlongNormal   == Dot(relativeVelocity, normal)
                 kick     == IF velAlongNormal < 0
                             THEN MultiplyScalar(normal, Impulse(velAlongNormal))
                             ELSE Vec(0, 0)
             IN  << [p1 EXCEPT !.position = VecAdd(p1.position, shift),
                                !.velocity = VecAdd(p1.velocity, kick)],
                    [p2 EXCEPT !.position = VecSub(p2.position, shift),
                                !.velocity = VecSub(p2.velocity, kick)] >>
        ELSE <<p1, p2>>

\* NeighborOffsets when only the cell itself is skipped (dx = 0, dy = 0): the
\* cell below is visited as a neighbour too.
NeighborOffsetsWithBelow == << <<0, -1>>, <<0, 1>>, <<1, -1>>, <<1, 0>>, <<1, 1>> >>

\* Lines 245-247: the neighbour offsets (dx, dy) in loop order.
NeighborOffsets == << <<0, 1>>, <<1, -1>>, <<1, 0>>, <<1, 1>> >>

\* Lines 237-241: the pairs of one cell, in call order.
SameCellPairs(b) ==
    Flatten([i \in 1..Len(b) |-> [j \in 1..(Len(b) - i) |-> <<b[i], b[i + j]>>]])

\* Lines 251-255: the pairs of a cell with one neighbour cell, in call order.
CrossPairs(b, nb) ==
    Flatten([i \in 1..Len(b) |-> [j \in 1..Len(nb) |-> <<b[i], nb[j]>>]])

\* Lines 234-258: the calls made while visiting one cell.
CellCalls(cells, key) ==
    LET b == Bucket(cells, key)
    IN  SameCellPairs(b) \o
        Flatten([k \in 1..Len(NeighborOffsets) |->
                    CrossPairs(b, Bucket(cells,
                        <<key[1] + NeighborOffsets[k][1],
                          key[2] + NeighborOffsets[k][2]>>))])

\* Lines 233-259: every call of resolveCollision of a frame, in order, when the
\* cells are visited in the given order.
NarrowPhaseCalls(cells, order) ==
    Flatten([k \in 1..Len(order) |-> CellCalls(cells, order[k])])

RECURSIVE ResolveAll(_, _, _)
ResolveAll(ps, calls, radius) ==
    IF calls = <<>> THEN ps
    ELSE LET i == Head(calls)[1]
             j == Head(calls)[2]
             r == ResolveCollision(ps[i], ps[j], radius)
         IN  ResolveAll([ps EXCEPT ![i] = r[1], ![j] = r[2]], Tail(calls), radius)

----------------------------------------------------------------------------
(* The handlers                                                            *)

NoProbe == [op |-> "none"]

\* Lines 128-265 (called once per animation frame, lines 343-347).
UpdateParticles ==
    /\ frame < MaxFrames
    /\ LET radius == params.particleSize
           staged == [i \in 1..Len(particles) |-> Integrate(particles[i])]
           stage1 == [i \in 1..Len(particles) |-> Particle(staged[i])]
           cells  == [i \in 1..Len(particles) |-> CellKey(stage1[i].position)]
           calls  == NarrowPhaseCalls(cells, GridKeys(cells))
       IN  /\ particles' = ResolveAll(stage1, calls, radius)
           /\ probe' = [ op         |-> "updateParticles",
                         before     |-> particles,
                         radius     |-> radius,
                         halfWidth  |-> HalfExtent(windowWidth),
                         halfHeight |-> HalfExtent(windowHeight),
                         staged     |-> staged,
                         cells      |-> cells,
                         calls      |-> calls ]
    /\ frame' = frame + 1
    /\ UNCHANGED <<params, windowWidth, windowHeight, isLeftMouseDown,
                   isRightMouseDown, attractionPoint, events>>

\* Lines 267-278: window.innerWidth and window.innerHeight are w and h.
OnWindowResize(w, h) ==
    /\ events < MaxEvents
    /\ windowWidth' = w
    /\ windowHeight' = h
    /\ events' = events + 1
    /\ probe' = NoProbe
    /\ UNCHANGED <<particles, params, isLeftMouseDown, isRightMouseDown,
                   attractionPoint, frame>>

\* Lines 280-284: cx, cy are the event's place in the canvas in pixels
\* (clientX - rect.left, clientY - rect.top).
UpdateMousePosition(cx, cy) ==
    Vec(cx * SCALE - HalfExtent(windowWidth),
        -(cy * SCALE - HalfExtent(windowHeight)))

\* Lines 318-322.
OnMouseDown(button, cx, cy) ==
    /\ events < MaxEvents
    /\ isLeftMouseDown' = IF button = 0 THEN TRUE ELSE isLeftMouseDown
    /\ isRightMouseDown' = IF button = 2 THEN TRUE ELSE isRightMouseDown
    /\ attractionPoint' = UpdateMousePosition(cx, cy)
    /\ events' = events + 1
    /\ probe' = NoProbe
    /\ UNCHANGED <<particles, params, windowWidth, windowHeight, frame>>

\* OnMouseUp that takes every release for a release of both buttons (the test
\* of event.button left out).
OnMouseUpAny(button) ==
    /\ events < MaxEvents
    /\ isLeftMouseDown' = FALSE
    /\ isRightMouseDown' = FALSE
    /\ events' = events + 1
    /\ probe' = NoProbe
    /\ UNCHANGED <<particles, params, windowWidth, windowHeight,
                   attractionPoint, frame>>

\* Lines 324-327.
OnMouseUp(button) ==
    /\ events < MaxEvents
    /\ isLeftMouseDown' = IF button = 0 THEN FALSE ELSE isLeftMouseDown
    /\ isRightMouseDown' = IF button = 2 THEN FALSE ELSE isRightMouseDown
    /\ events' = events + 1
    /\ probe' = NoProbe
    /\ UNCHANGED <<particles, params, windowWidth, windowHeight,
                   attractionPoint, frame>>

\* Lines 329-333.
OnMouseMove(cx, cy) ==
    /\ events < MaxEvents
    /\ attractionPoint' = IF isLeftMouseDown \/ isRightMouseDown
                          THEN UpdateMousePosition(cx, cy)
                          ELSE attractionPoint
    /\ events' = events + 1
    /\ probe' = NoProbe
    /\ UNCHANGED <<particles, params, windowWidth, windowHeight,
                   isLeftMouseDown, isRightMouseDown, frame>>

\* Lines 291-299: a slider of the GUI writes one field of this.params.
SetParam(field, value) ==
    /\ events < MaxEvents
    /\ params' = [params EXCEPT ![field] = value]
    /\ events' = events + 1
    /\ probe' = NoProbe
    /\ UNCHANGED <<particles, windowWidth, windowHeight, isLeftMouseDown,
                   isRightMouseDown, attractionPoint, frame>>

----------------------------------------------------------------------------
(* The program: construction, then frames and events in any order          *)

\* window.innerWidth x window.innerHeight, in pixels.
WindowSizes == { <<24, 20>>, <<12, 20>>, <<32, 24>> }

\* Lines 92-93: (Math.random() - 0.5) * windowWidth lies in [-w/2, w/2).
SeedCoords(w) ==
    {c \in {-10000, 0, 11000} : -HalfExtent(w) <= c /\ c < HalfExtent(w)}

\* Line 107: each component is (Math.random() - 0.5) * 4, in [-2, 2).
SeedVelocities == { Vec(0, 0), Vec(1500, -2000) }

\* Lines 90-110: one particle as createParticles makes it.
SeedParticles(w, h) ==
    { [position |-> Vec(x, y), velocity |-> v, opacity |-> BaseOpacity] :
        x \in SeedCoords(w), y \in {0}, v \in SeedVelocities }

\* Lines 36-48, 77-82: the state the constructor leaves.
Init ==
    /\ \E size \in WindowSizes :
          /\ windowWidth = size[1]
          /\ windowHeight = size[2]
          /\ \/ \E p \in SeedParticles(size[1], size[2]) : particles = <<p>>
             \/ \E p \in SeedParticles(size[1], size[2]) :
                   \E x \in {-3000} :
                      particles = << p, [position |-> Vec(x, 0),
                                         velocity |-> Vec(0, 0),
                                         opacity  |-> BaseOpacity] >>
    /\ params = DefaultParams
    /\ isLeftMouseDown = FALSE
    /\ isRightMouseDown = FALSE
    /\ attractionPoint = Vec(0, 0)
    /\ frame = 0
    /\ events = 0
    /\ probe = NoProbe

\* Where the pointer events of the model happen, in canvas pixels.
PointerPlaces == { <<12, 4>>, <<2, 10>> }

\* The values the model moves the sliders to (lines 291-299 give the ranges).
SliderValues ==
    [ maxSpeed      |-> {0},
      particleSize  |-> {2000},
      friction      |-> {1000} ]

Next ==
    \/ UpdateParticles
    \/ \E size \in WindowSizes : OnWindowResize(size[1], size[2])
    \/ \E button \in {0, 1, 2}, place \in PointerPlaces :
          OnMouseDown(button, place[1], place[2])
    \/ \E button \in {0, 1, 2} : OnMouseUp(button)
    \/ \E place \in PointerPlaces : OnMouseMove(place[1], place[2])
    \/ \E field \in DOMAIN SliderValues : \E value \in SliderValues[field] :
          SetParam(field, value)

Spec == Init /\ [][Next]_vars

----------------------------------------------------------------------------
(* One frame from any state: updateParticles as a function of the state   *)
(* it is called in.  The particles, the sliders, the pointer and the       *)
(* window are drawn from the sets below; the sliders stay in the ranges of *)
(* lines 291-299, except maxSpeed 100, which stands for "no speed limit".  *)

FrameWindows == { <<24, 20>>, <<12, 16>> }

FrameParams ==
    { [DefaultParams EXCEPT !.gravity = g, !.friction = f, !.particleSize = r] :
        g \in {0, 200}, f \in {980, 1000}, r \in {2000, 8000} }

\* One particle placed relative to the inset rectangle of the window.
FramePositions(w, h, r) ==
    { Vec(x, y) :
        x \in {0, HalfExtent(w) - r + 1000, -HalfExtent(w), HalfExtent(w) + 3000},
        y \in {0, -(HalfExtent(h) - r)} }

FrameVelocities ==
    { Vec(0, 0), Vec(2000, 0), Vec(30, 40), Vec(6000, 8000), Vec(-3000, -4000) }

\* The pointer at the call: <<isLeftMouseDown, isRightMouseDown, the place of
\* attractionPoint relative to the particle, attractionStrength>>.
FramePointers ==
    << <<FALSE, FALSE, Vec(0, 0), 100>>,
       <<TRUE,  FALSE, Vec(0, 3000), 100>>,
       <<TRUE,  FALSE, Vec(0, 3000), 0>>,
       <<TRUE,  FALSE, Vec(0, 0), 100>>,
       <<TRUE,  FALSE, Vec(0, 30000), 100>>,
       <<FALSE, TRUE,  Vec(0, 3000), 100>>,
       <<TRUE,  TRUE,  Vec(4000, 3000), 100>> >>

\* maxSpeed at the call; 100 only with the pointer inactive.
FrameMaxSpeeds == <<8000, 100000, 0>>

\* Several particles in a window of 4 x 3 cells (particleSize 2).
CrowdX == {-6000, -2500, -500, 1500, 5000}

CrowdY == {-4000, -500, 2500}

Still(x, y) == [position |-> Vec(x, y), velocity |-> Vec(0, 0), opacity |-> BaseOpacity]

InitOne ==
    \E k \in DOMAIN FramePointers, m \in DOMAIN FrameMaxSpeeds :
       /\ FrameMaxSpeeds[m] = 100000 => k = 1
       /\ isLeftMouseDown = FramePointers[k][1]
       /\ isRightMouseDown = FramePointers[k][2]
       /\ \E size \in FrameWindows, q \in FrameParams :
             /\ windowWidth = size[1]
             /\ windowHeight = size[2]
             /\ params = [q EXCEPT !.maxSpeed = FrameMaxSpeeds[m],
                                   !.attractionStrength = FramePointers[k][4]]
             /\ \E pos \in FramePositions(size[1], size[2], q.particleSize),
                   vel \in FrameVelocities :
                   /\ particles = << [position |-> pos, velocity |-> vel,
                                      opacity |-> BaseOpacity] >>
                   /\ attractionPoint = VecAdd(pos, FramePointers[k][3])

InitCrowd ==
    /\ windowWidth = 16
    /\ windowHeight = 12
    /\ \E g \in {0, 200} :
          params = [DefaultParams EXCEPT !.particleSize = 2000, !.gravity = g]
    /\ isLeftMouseDown = FALSE
    /\ isRightMouseDown = FALSE
    /\ attractionPoint = Vec(0, 0)
    /\ \E x1 \in CrowdX, y1 \in CrowdY, x2 \in CrowdX, y2 \in CrowdY :
          \/ particles = <<Still(x1, y1), Still(x2, y2)>>
          \/ \E x3 \in {-2500, 1500, 5000}, y3 \in {-500, 2500} :
                particles = <<Still(x1, y1), Still(x2, y2), Still(x3, y3)>>

InitFrame ==
    /\ InitOne \/ InitCrowd
    /\ frame = 0
    /\ events = 0
    /\ probe = NoProbe

SpecFrame == InitFrame /\ [][UpdateParticles]_vars

----------------------------------------------------------------------------
(* resolveCollision on its own: one call on a pair drawn from the sets     *)
(* below.  The pairs lie on directions and at distances for which the      *)
(* normal, the shift and the impulse are whole numbers of ticks, so the    *)
(* call is computed without rounding.                                      *)

\* Unit vectors (in ticks) with a whole number of ticks on each axis.
ResolveNormals ==
    { Vec(1000, 0), Vec(0, -1000), Vec(600, 800), Vec(-800, 600),
      Vec(280, -960), Vec(-960, -280) }

\* Distances between the two centres.
ResolveDistances == {0, 1000, 2000, 3500, 4000, 8000, 15000, 16000, 20000}

\* The velocities of the pair, relative to the normal n from p2 to p1.
ResolveVelocities(n) ==
    LET along == Vec(TDiv(n.x * 5, 2), TDiv(n.y * 5, 2))
        cross == Vec(-along.y, along.x)
        zero  == Vec(0, 0)
        neg(v) == Vec(-v.x, -v.y)
    IN  { <<zero, zero>>,
          <<neg(along), along>>,
          <<along, neg(along)>>,
          <<cross, neg(cross)>>,
          <<VecAdd(neg(along), cross), zero>>,
          <<Vec(2500, 0), Vec(0, -2500)>>,
          <<Vec(0, -5000), Vec(2500, 2500)>> }

ResolveCall ==
    /\ probe.op = "none"
    /\ LET r == ResolveCollision(particles[1], particles[2], params.particleSize)
       IN  particles' = <<r[1], r[2]>>
    /\ probe' = [ op     |-> "resolveCollision",
                  before |-> particles,
                  radius |-> params.particleSize ]
    /\ UNCHANGED <<params, windowWidth, windowHeight, isLeftMouseDown,
                   isRightMouseDown, attractionPoint, frame, events>>

InitResolve ==
    /\ \E r \in {2000, 8000} : params = [DefaultParams EXCEPT !.particleSize = r]
    /\ \E n \in ResolveNormals, d \in ResolveDistances, at \in {Vec(0, 0), Vec(-1000, 500)} :
          \E v \in ResolveVelocities(n) :
             particles =
                << [ position |-> VecAdd(at, MultiplyScalar(n, d)),
                     velocity |-> v[1], opacity |-> BaseOpacity ],
                   [ position |-> at, velocity |-> v[2], opacity |-> BaseOpacity ] >>
    /\ windowWidth = 32
    /\ windowHeight = 24
    /\ isLeftMouseDown = FALSE
    /\ isRightMouseDown = FALSE
    /\ attractionPoint = Vec(0, 0)
    /\ frame = 0
    /\ events = 0
    /\ probe = NoProbe

SpecResolve == InitResolve /\ [][ResolveCall]_vars

----------------------------------------------------------------------------
(* The animation loop left to itself: no events, the pointer inactive, one *)
(* call of updateParticles per animation frame, for ever.                   *)

\* Line 344: requestAnimationFrame(this.animate): animate always asks for the
\* next animation frame.  Here frame is the parity of the number of frames.
NextFrame == frame' = 1 - frame

\* Lines 343-347: one animation frame: animate asks for the next one and calls
\* updateParticles.
Animate ==
    /\ NextFrame
    /\ LET radius == params.particleSize
           staged == [i \in 1..Len(particles) |-> Integrate(particles[i])]
           stage1 == [i \in 1..Len(particles) |-> Particle(staged[i])]
           cells  == [i \in 1..Len(particles) |-> CellKey(stage1[i].position)]
           calls  == NarrowPhaseCalls(cells, GridKeys(cells))
       IN  /\ particles' = ResolveAll(stage1, calls, radius)
           /\ probe' = [ op         |-> "updateParticles",
                         before     |-> particles,
                         radius     |-> radius,
                         halfWidth  |-> HalfExtent(windowWidth),
                         halfHeight |-> HalfExtent(windowHeight),
                         staged     |-> staged,
                         cells      |-> cells,
                         calls      |-> calls ]
    /\ UNCHANGED <<params, windowWidth, windowHeight, isLeftMouseDown,
                   isRightMouseDown, attractionPoint, events>>

\* gravity, friction (< 1) and stopThreshold (> 0) of the runs.
RestGravities == {0, 200}

RestFrictions == {900, 980}

RestThresholds == {50, 200}

\* One particle: in the air, on the floor, in a corner of the inset rectangle
\* (window 16 x 12, particleSize 2).
RestPositions == { Vec(0, 0), Vec(3000, -4000), Vec(6000, 4000) }

RestVelocities == { Vec(0, 0), Vec(2000, 0), Vec(-1500, 2000), Vec(6000, -8000) }

Moving(pos, vel) == [position |-> pos, velocity |-> vel, opacity |-> BaseOpacity]

InitRest ==
    /\ windowWidth = 16
    /\ windowHeight = 12
    /\ \E g \in RestGravities, f \in RestFrictions, t \in RestThresholds :
          params = [DefaultParams EXCEPT !.particleSize = 2000, !.gravity = g,
                                         !.friction = f, !.stopThreshold = t]
    /\ \/ \E pos \in RestPositions, vel \in RestVelocities :
             particles = <<Moving(pos, vel)>>
       \/ \E vel \in RestVelocities, x \in {-3000, 2500} :
             particles = <<Moving(Vec(-6000, -4000), vel), Still(x, -4000)>>
    /\ isLeftMouseDown = FALSE
    /\ isRightMouseDown = FALSE
    /\ attractionPoint = Vec(0, 0)
    /\ frame = 0
    /\ events = 0
    /\ probe = NoProbe

\* The browser keeps delivering the animation frames that animate asks for:
\* frames never stop coming (every step of this specification that is a
\* NextFrame step is an Animate step).
SpecRest == InitRest /\ [][Animate]_vars /\ WF_frame(NextFrame)

----------------------------------------------------------------------------
(* The pointer: mouse events in any order, and frames, from any state of   *)
(* the pointer that earlier mouse events can have left.                     *)

\* MouseEvent.button: 0 left, 1 middle, 2 right.
Buttons == {0, 1, 2}

InitPointer ==
    /\ windowWidth = 24
    /\ windowHeight = 20
    /\ params = [DefaultParams EXCEPT !.particleSize = 2000]
    /\ \E x \in {0, 3000} : particles = <<Still(x, 0)>>
    /\ isLeftMouseDown \in BOOLEAN
    /\ isRightMouseDown \in BOOLEAN
    /\ \/ attractionPoint = Vec(0, 0)
       \/ \E place \in PointerPlaces :
             attractionPoint = UpdateMousePosition(place[1], place[2])
    /\ frame = 0
    /\ events = 0
    /\ probe = NoProbe

NextPointer ==
    \/ UpdateParticles
    \/ \E button \in Buttons, place \in PointerPlaces :
          OnMouseDown(button, place[1], place[2])
    \/ \E button \in Buttons : OnMouseUp(button)
    \/ \E place \in PointerPlaces : OnMouseMove(place[1], place[2])

SpecPointer == InitPointer /\ [][NextPointer]_vars

----------------------------------------------------------------------------
(* Properties                                                              *)

Framed == probe.op = "updateParticles"

Staged(i) == probe.staged[i]

InsideX(pos) == Abs(pos.x) <= probe.halfWidth - probe.radius

InsideY(pos) == Abs(pos.y) <= probe.halfHeight - probe.radius

\* C1 as claimed: after the Force & Integration stage every particle is inside
\* the rectangle inset by the radius, whatever the window and the particle
\* were before the frame.
C1_ContainmentAnyWindow ==
    Framed => \A i \in DOMAIN probe.staged :
                 InsideX(Staged(i).position) /\ InsideY(Staged(i).position)

\* C1 (amended): after the Force & Integration stage a particle's position
\* satisfies |x| <= halfWidth - radius when halfWidth >= radius, and
\* |y| <= halfHeight - radius when halfHeight >= radius, whatever its position
\* and velocity were before the frame.
C1_Containment ==
    Framed => \A i \in DOMAIN probe.staged :
                 /\ probe.halfWidth >= probe.radius => InsideX(Staged(i).position)
                 /\ probe.halfHeight >= probe.radius => InsideY(Staged(i).position)

\* C1's case: a frame that starts with a particle outside the window itself
\* (a resize shrank the window since the previous frame), in a window that is
\* at least a particle wide and high.
C1_Witness ==
    /\ Framed
    /\ probe.halfWidth >= probe.radius
    /\ probe.halfHeight >= probe.radius
    /\ \E i \in DOMAIN probe.staged :
          /\ Abs(probe.before[i].position.x) > probe.halfWidth
          /\ InsideX(Staged(i).position)

Pairs == {pr \in (DOMAIN probe.staged) \X (DOMAIN probe.staged) : pr[1] < pr[2]}

Overlapping(i, j) ==
    Shorter(VecSub(Staged(i).position, Staged(j).position), 2 * probe.radius)

\* Chebyshev distance of two cells at most 1.
Adjacent(c, d) == Abs(c[1] - d[1]) <= 1 /\ Abs(c[2] - d[2]) <= 1

\* C2: two particles whose distance after integration is strictly less than
\* 2*radius are in the same grid cell or in cells that differ by at most 1 on
\* each axis.
C2_BroadPhase ==
    Framed => \A pr \in Pairs :
                 Overlapping(pr[1], pr[2])
                    => Adjacent(probe.cells[pr[1]], probe.cells[pr[2]])

\* C2's case: an overlapping pair whose cells differ on both axes.
C2_Witness ==
    /\ Framed
    /\ \E pr \in Pairs :
          /\ Overlapping(pr[1], pr[2])
          /\ probe.cells[pr[1]][1] # probe.cells[pr[2]][1]
          /\ probe.cells[pr[1]][2] # probe.cells[pr[2]][2]

\* Every order in which the cells of the grid can be visited.
Orders(cells) ==
    LET keys == Range(cells)
        n    == Cardinality(keys)
    IN  {f \in [1..n -> keys] : \A a, b \in 1..n : f[a] = f[b] => a = b}

\* How often resolveCollision was called on the unordered pair {i, j}.
TimesCalled(calls, i, j) ==
    Cardinality({k \in DOMAIN calls : calls[k] = <<i, j>> \/ calls[k] = <<j, i>>})

OncePerNearPair(calls) ==
    \A pr \in Pairs :
        TimesCalled(calls, pr[1], pr[2]) =
            IF Adjacent(probe.cells[pr[1]], probe.cells[pr[2]]) THEN 1 ELSE 0

\* C3: in one frame resolveCollision is called exactly once on every unordered
\* pair of particles whose cells are identical or adjacent and never on a pair
\* in non-adjacent cells: in the frame as it ran, and for every other order in
\* which the cells of its grid could be visited.
C3_PairsOnce ==
    Framed => /\ OncePerNearPair(probe.calls)
              /\ \A order \in Orders(probe.cells) :
                    OncePerNearPair(NarrowPhaseCalls(probe.cells, order))

\* C3's case: three particles, one in the cell behind-left on the diagonal
\* (cx - 1, cy + 1) of another's, which no offset of the loop names, and a pair
\* in cells that are not adjacent.
C3_Witness ==
    /\ Framed
    /\ Len(probe.cells) = 3
    /\ \E i, j \in DOMAIN probe.cells :
          probe.cells[j] = <<probe.cells[i][1] - 1, probe.cells[i][2] + 1>>
    /\ \E i, j \in DOMAIN probe.cells : ~Adjacent(probe.cells[i], probe.cells[j])
    /\ OncePerNearPair(probe.calls)

Before(i) == probe.before[i]

PointerInactive == ~isLeftMouseDown /\ ~isRightMouseDown

\* Scenario C's start: x = halfWidth - radius + 1, velocity.x = +2.
ScenarioC(i) ==
    /\ Before(i).position.x = probe.halfWidth - probe.radius + SCALE
    /\ Before(i).velocity.x = 2 * SCALE

\* C6 as claimed: from Scenario C's start the stage ends with
\* position.x = halfWidth - radius and velocity.x = -1.8.
C6_WallBounceNoFriction ==
    Framed => \A i \in DOMAIN probe.staged :
                 ScenarioC(i) =>
                    /\ Staged(i).position.x = probe.halfWidth - probe.radius
                    /\ Staged(i).velocity.x = -1800

\* C6 (amended): from Scenario C's start, with the pointer inactive, the speed
\* after gravity not above maxSpeed and halfWidth >= radius, the stage ends
\* with position.x = halfWidth - radius and velocity.x = -1.8 * friction
\* (-1.764 at the default friction 0.98; -1.8 only when friction = 1).
C6_WallBounce ==
    Framed => \A i \in DOMAIN probe.staged :
                 ( /\ ScenarioC(i)
                   /\ PointerInactive
                   /\ Length(ApplyGravity(Before(i).velocity)) <= params.maxSpeed
                   /\ probe.halfWidth >= probe.radius )
                 => /\ Staged(i).position.x = probe.halfWidth - probe.radius
                    /\ Staged(i).velocity.x = Mul(-1800, params.friction)

\* C6's case: Scenario C at the default friction 0.98, ending at -1.764.
C6_Witness ==
    /\ Framed
    /\ PointerInactive
    /\ params.friction = 980
    /\ probe.halfWidth >= probe.radius
    /\ \E i \in DOMAIN probe.staged :
          /\ ScenarioC(i)
          /\ Staged(i).afterLimit.x = 2 * SCALE
          /\ Staged(i).position.x = probe.halfWidth - probe.radius
          /\ Staged(i).velocity.x = -1764

\* C7: right after the speed-limit step (after pointer force and gravity,
\* before the position update) the velocity is no longer than maxSpeed, for
\* every maxSpeed >= 0.
C7_SpeedCap ==
    Framed => \A i \in DOMAIN probe.staged :
                 Length(Staged(i).afterLimit) <= params.maxSpeed

\* C7's case: pointer force and gravity made the particle faster than
\* maxSpeed, and the limit step cut the velocity.
C7_Witness ==
    /\ Framed
    /\ \E i \in DOMAIN probe.staged :
          /\ Staged(i).afterPointer # Before(i).velocity
          /\ Length(ApplyGravity(Staged(i).afterPointer)) > params.maxSpeed
          /\ Staged(i).afterLimit # ApplyGravity(Staged(i).afterPointer)
          /\ Length(Staged(i).afterLimit) <= params.maxSpeed

\* C8: a velocity that is shorter than stopThreshold after the friction step
\* is exactly (0, 0) at the end of the stage; any other is as the friction
\* step left it.
C8_RestSnap ==
    Framed => \A i \in DOMAIN probe.staged :
                 Staged(i).velocity =
                    IF Shorter(Staged(i).afterFriction, params.stopThreshold)
                    THEN Vec(0, 0)
                    ELSE Staged(i).afterFriction

\* C8's case: a particle that friction left moving, slower than
\* stopThreshold, and that ends the stage at rest.
C8_Witness ==
    /\ Framed
    /\ \E i \in DOMAIN probe.staged :
          /\ Staged(i).afterFriction # Vec(0, 0)
          /\ Shorter(Staged(i).afterFriction, params.stopThreshold)
          /\ Staged(i).velocity = Vec(0, 0)

\* Scenario D's start: attract mode, the pointer straight above the particle
\* and nearer than the interaction radius.
ScenarioD(i) ==
    /\ isLeftMouseDown
    /\ attractionPoint.x = Before(i).position.x
    /\ attractionPoint.y > Before(i).position.y
    /\ Shorter(VecSub(attractionPoint, Before(i).position), InteractionRadius)

\* C9 as claimed: in Scenario D the vertical velocity after the stage is
\* greater than before the frame, and the opacity is above 0.8.
C9_AttractionRaisesVelocity ==
    Framed => \A i \in DOMAIN probe.staged :
                 ScenarioD(i) =>
                    /\ Staged(i).velocity.y > Before(i).velocity.y
                    /\ Staged(i).opacity > BaseOpacity

\* C9 (amended): in Scenario D the pointer step adds attractionStrength * 100
\* to the vertical velocity and leaves the horizontal velocity alone, so right
\* after the pointer step the vertical velocity is greater than before the
\* frame whenever attractionStrength > 0; the opacity is above 0.8.  (Gravity,
\* the speed limit, a bounce and friction follow in the same stage, and the
\* vertical velocity at its end may be lower than before the frame.)
C9_Attraction ==
    Framed => \A i \in DOMAIN probe.staged :
                 ScenarioD(i) =>
                    /\ Staged(i).afterPointer.y =
                          Before(i).velocity.y
                             + params.attractionStrength * PointerForceScale
                    /\ Staged(i).afterPointer.x = Before(i).velocity.x
                    /\ Staged(i).opacity > BaseOpacity

\* C9's case: Scenario D with a positive attractionStrength: the pointer step
\* raised the vertical velocity, and the stage ended with it lower than it
\* was before the frame.
C9_Witness ==
    /\ Framed
    /\ params.attractionStrength > 0
    /\ \E i \in DOMAIN probe.staged :
          /\ ScenarioD(i)
          /\ Staged(i).afterPointer.y > Before(i).velocity.y
          /\ Staged(i).velocity.y < Before(i).velocity.y
          /\ Staged(i).opacity > BaseOpacity

\* Scenario A's start: one particle at rest at the centre, gravity 0.2,
\* friction 1, maxSpeed 100, pointer inactive; one frame has run.
ScenarioA ==
    /\ Framed
    /\ Len(probe.before) = 1
    /\ Before(1).position = Vec(0, 0)
    /\ Before(1).velocity = Vec(0, 0)
    /\ params.gravity = 200
    /\ params.friction = 1000
    /\ params.maxSpeed = 100000
    /\ PointerInactive

\* C10 as claimed: after one frame of Scenario A velocity.y = -0.2 and
\* position.y = -0.2.
C10_FreeFallAnyWindow ==
    ScenarioA => /\ particles[1].velocity.y = -200
                 /\ particles[1].position.y = -200

\* C10 (amended): after one frame of Scenario A velocity.y = -0.2 and
\* position.y = -0.2, provided halfHeight - radius >= 0.2 (the floor of the
\* inset rectangle is at least 0.2 below the centre; otherwise the particle
\* is put on the floor and bounces within that frame).
C10_FreeFall ==
    (ScenarioA /\ probe.halfHeight - probe.radius >= 200)
       => /\ particles[1].velocity.y = -200
          /\ particles[1].position.y = -200

\* C10's case: Scenario A in a window with room to fall.
C10_Witness ==
    /\ ScenarioA
    /\ probe.halfHeight - probe.radius >= 200
    /\ particles[1].velocity = Vec(0, -200)
    /\ particles[1].position = Vec(0, -200)

Resolved == probe.op = "resolveCollision"

DiffBefore == VecSub(probe.before[1].position, probe.before[2].position)

DiffAfter == VecSub(particles[1].position, particles[2].position)

\* The pair overlapped without coinciding: 0 < distance < 2*radius.
Overlapped == LengthSq(DiffBefore) > 0 /\ Shorter(DiffBefore, 2 * probe.radius)

Moved(i) == VecSub(particles[i].position, probe.before[i].position)

CrossProduct(a, b) == a.x * b.y - a.y * b.x

\* a is a positive multiple of b.
SameDirection(a, b) == CrossProduct(a, b) = 0 /\ a.x * b.x + a.y * b.y > 0

\* C4: resolveCollision on a pair with 0 < distance < 2*radius moves p1 by
\* overlap/2 along (p1 - p2)/distance and p2 by as much the other way, and
\* leaves the two at distance exactly 2*radius.
C4_PositionalCorrection ==
    (Resolved /\ Overlapped) =>
       LET overlap == 2 * probe.radius - Length(DiffBefore)
       IN  /\ SameDirection(Moved(1), DiffBefore)
           /\ 4 * LengthSq(Moved(1)) = overlap * overlap
           /\ Moved(2) = Vec(-Moved(1).x, -Moved(1).y)
           /\ LengthSq(DiffAfter) = (2 * probe.radius) * (2 * probe.radius)

\* C4's case (Scenario B): radius 8, the centres 8 apart on an oblique line,
\* both at rest; afterwards they are 16 apart and each has moved 4.
C4_Witness ==
    /\ Resolved
    /\ probe.radius = 8000
    /\ LengthSq(DiffBefore) = 8000 * 8000
    /\ DiffBefore.x # 0 /\ DiffBefore.y # 0
    /\ probe.before[1].velocity = Vec(0, 0)
    /\ probe.before[2].velocity = Vec(0, 0)
    /\ LengthSq(Moved(1)) = 4000 * 4000
    /\ LengthSq(Moved(2)) = 4000 * 4000
    /\ LengthSq(DiffAfter) = 16000 * 16000

\* The pair approaches head-on: velocities v and -v, v along the line of
\* centres and pointing from p1 to p2.
HeadOn ==
    /\ probe.before[1].velocity # Vec(0, 0)
    /\ probe.before[2].velocity =
          Vec(-probe.before[1].velocity.x, -probe.before[1].velocity.y)
    /\ SameDirection(probe.before[2].velocity, DiffBefore)

\* C5: an overlapping pair that approaches head-on with velocities v and -v
\* along the normal leaves resolveCollision with velocities -v and v.
C5_ElasticExchange ==
    (Resolved /\ Overlapped /\ HeadOn) =>
       /\ particles[1].velocity = probe.before[2].velocity
       /\ particles[2].velocity = probe.before[1].velocity

\* C5's case: a head-on pair on an oblique line of centres, after the call.
C5_Witness ==
    /\ Resolved
    /\ Overlapped
    /\ HeadOn
    /\ DiffBefore.x # 0 /\ DiffBefore.y # 0
    /\ particles[1].velocity = probe.before[2].velocity
    /\ particles[1].velocity # probe.before[1].velocity

\* C11: at the end of a complete per-frame update (after the narrow phase)
\* every particle's position lies inside the boundary rectangle inset by the
\* radius on each side.  Stated for windows at least a particle wide and high,
\* where the inset rectangle is not empty.
C11_OccupiedRegion ==
    (Framed /\ probe.halfWidth >= probe.radius /\ probe.halfHeight >= probe.radius)
       => \A i \in DOMAIN particles :
             InsideX(particles[i].position) /\ InsideY(particles[i].position)

\* The pair did not overlap: the centres coincide or are 2*radius or more apart.
Apart == LengthSq(DiffBefore) = 0 \/ ~Shorter(DiffBefore, 2 * probe.radius)

VelocityChange(i) == VecSub(particles[i].velocity, probe.before[i].velocity)

RelativeSpeed == Length(VecSub(probe.before[1].velocity, probe.before[2].velocity))

\* C12: resolveCollision leaves both positions and both velocities exactly as
\* they were when the distance of the pair is 0 or is 2*radius or more; and no
\* call produces an unbounded value: no coordinate moves by more than the
\* radius and no velocity component changes by more than the relative speed.
C12_DegenerateUntouched ==
    Resolved =>
       /\ Apart => /\ particles[1] = probe.before[1]
                   /\ particles[2] = probe.before[2]
       /\ \A i \in {1, 2} :
             /\ Abs(Moved(i).x) <= probe.radius
             /\ Abs(Moved(i).y) <= probe.radius
             /\ Abs(VelocityChange(i).x) <= RelativeSpeed
             /\ Abs(VelocityChange(i).y) <= RelativeSpeed

\* C12's case: a pair exactly 2*radius apart on an oblique line, approaching
\* head-on, that the call left as it was.
C12_Witness ==
    /\ Resolved
    /\ LengthSq(DiffBefore) = (2 * probe.radius) * (2 * probe.radius)
    /\ DiffBefore.x # 0 /\ DiffBefore.y # 0
    /\ HeadOn
    /\ particles[1] = probe.before[1]
    /\ particles[2] = probe.before[2]

\* C12's other case: a coincident pair with different velocities, left as it
\* was.
C12_WitnessCoincident ==
    /\ Resolved
    /\ DiffBefore = Vec(0, 0)
    /\ probe.before[1].velocity # probe.before[2].velocity
    /\ particles[1] = probe.before[1]
    /\ particles[2] = probe.before[2]

AllAtRest == \A i \in DOMAIN particles : particles[i].velocity = Vec(0, 0)

\* C13: with the pointer inactive, friction < 1 and stopThreshold > 0, for
\* any gravity in its range the velocity of every particle eventually is
\* (0, 0) and stays (0, 0) at the end of every later frame.
C13_ComesToRestAnyGravity == <>[]AllAtRest

\* What the code does bring about: with gravity = 0 (pointer inactive,
\* friction < 1, stopThreshold > 0) the velocity of every particle eventually
\* is (0, 0) and stays (0, 0) at the end of every later frame.
C13_ComesToRest == (params.gravity = 0) => <>[]AllAtRest

\* Without gravity: a frame in which friction left a particle moving slower
\* than stopThreshold, after which every particle is at rest.
C13_Witness ==
    /\ Framed
    /\ params.gravity = 0
    /\ PointerInactive
    /\ \E i \in DOMAIN probe.staged :
          /\ Before(i).velocity # Vec(0, 0)
          /\ Staged(i).afterFriction # Vec(0, 0)
          /\ Shorter(Staged(i).afterFriction, params.stopThreshold)
    /\ AllAtRest

\* With gravity a particle lying on the floor leaves rest again: it ended the
\* previous frame on the floor at rest, and ends this one moving.
C13_LeavesRest ==
    /\ Framed
    /\ params.gravity > 0
    /\ \E i \in DOMAIN probe.staged :
          /\ Before(i).velocity = Vec(0, 0)
          /\ Before(i).position.y = -(probe.halfHeight - probe.radius)
          /\ particles[i].position = Before(i).position
          /\ particles[i].velocity # Vec(0, 0)

\* The same call with the two particles passed the other way round.
Swapped == ResolveCollision(probe.before[2], probe.before[1], probe.radius)

\* C14: resolveCollision leaves the sum of the two positions and the sum of
\* the two velocities as they were, changes each velocity only along the line
\* of centres (the tangential components stay), and gives the same outcome
\* whichever of the two particles is passed first.
C14_Conservation ==
    Resolved =>
       /\ VecAdd(particles[1].position, particles[2].position) =
             VecAdd(probe.before[1].position, probe.before[2].position)
       /\ VecAdd(particles[1].velocity, particles[2].velocity) =
             VecAdd(probe.before[1].velocity, probe.before[2].velocity)
       /\ \A i \in {1, 2} : CrossProduct(VelocityChange(i), DiffBefore) = 0
       /\ Swapped = <<particles[2], particles[1]>>

\* C14's case: an overlapping pair on an oblique line of centres whose relative
\* velocity has a part along the line (approaching) and a part across it; the
\* call moved both particles and changed both velocities.
C14_Witness ==
    /\ Resolved
    /\ Overlapped
    /\ DiffBefore.x # 0 /\ DiffBefore.y # 0
    /\ CrossProduct(VecSub(probe.before[1].velocity, probe.before[2].velocity),
                    DiffBefore) # 0
    /\ Moved(1) # Vec(0, 0)
    /\ VelocityChange(1) # Vec(0, 0)
    /\ VelocityChange(2) # Vec(0, 0)
    /\ probe.before[1].velocity # Vec(-probe.before[2].velocity.x,
                                       -probe.before[2].velocity.y)

\* The buttons the program takes to be held.
Held == (IF isLeftMouseDown THEN {0} ELSE {}) \cup (IF isRightMouseDown THEN {2} ELSE {})

\* The mode that goes with a set of held buttons: attract iff left is held,
\* repel iff only right is held, none iff neither is held.
ModeOf(held) == IF 0 \in held THEN "attract" ELSE IF 2 \in held THEN "repel" ELSE "none"

\* What the pointer step of the last frame did to particle i.
PointerPush(i) == VecSub(Staged(i).afterPointer, Before(i).velocity)

Toward(i) == VecSub(attractionPoint, Before(i).position)

\* The mode the last frame used on particle i, read off the velocity it added:
\* toward the pointer, away from it, or none.
ModeUsed(i) ==
    LET along == PointerPush(i).x * Toward(i).x + PointerPush(i).y * Toward(i).y
    IN  IF PointerPush(i) = Vec(0, 0) THEN "none"
        ELSE IF along > 0 THEN "attract"
        ELSE IF along < 0 THEN "repel"
        ELSE "across"

\* A frame uses the mode of the buttons held, on every particle within the
\* interaction radius of the pointer and not exactly under it.
FrameUsesHeld ==
    Framed => \A i \in DOMAIN probe.staged :
                 (Toward(i) # Vec(0, 0) /\ Shorter(Toward(i), InteractionRadius))
                    => ModeUsed(i) = ModeOf(Held)

\* mousedown adds the event's button to the held ones, mouseup takes it away
\* and leaves the other button alone, mousemove changes none, and moves the
\* pointer position only while a button is held.
EventsTrackButtons ==
    /\ \A b \in Buttons, place \in PointerPlaces :
          OnMouseDown(b, place[1], place[2]) => Held' = Held \cup ({b} \cap {0, 2})
    /\ \A b \in Buttons : OnMouseUp(b) => Held' = Held \ {b}
    /\ \A place \in PointerPlaces :
          OnMouseMove(place[1], place[2])
             => /\ Held' = Held
                /\ attractionPoint' # attractionPoint => Held # {}

\* C15: after any sequence of mousedown, mouseup and mousemove events the mode
\* the next frame uses is attract iff the left button is held, repel iff only
\* the right button is held and none iff neither is held (releasing left while
\* right is held leaves repel); mousemove changes the pointer position only
\* while a button is held, and never changes the mode.
C15_PointerMode == [][EventsTrackButtons /\ FrameUsesHeld']_vars

\* C15's case: after mouse events, a frame run with only the right button
\* held, which pushed the particle away from the pointer.
C15_Witness ==
    /\ Framed
    /\ events > 0
    /\ Held = {2}
    /\ \E i \in DOMAIN probe.staged :
          /\ Toward(i) # Vec(0, 0)
          /\ Shorter(Toward(i), InteractionRadius)
          /\ ModeUsed(i) = "repel"

\* C15's other case: a frame run with both buttons held, which pulled the
\* particle toward the pointer.
C15_WitnessBothHeld ==
    /\ Framed
    /\ events > 0
    /\ Held = {0, 2}
    /\ \E i \in DOMAIN probe.staged :
          /\ Toward(i) # Vec(0, 0)
          /\ Shorter(Toward(i), InteractionRadius)
          /\ ModeUsed(i) = "attract"

====
